---- MODULE Spec2Model ----
(***************************************************************************)
(* A model of pg_email_opt: the emailaddr type's input function (split at  *)
(* the separating '@', local-part and domain validation) and its           *)
(* comparison, hash and normalization functions.                           *)
(*                                                                         *)
(* C strings are modelled as sequences of byte values (ASCII codes); the   *)
(* terminating NUL is not stored, a read one past the end yields 0.        *)
(***************************************************************************)
EXTENDS Integers, Sequences, FiniteSets, TLC

VARIABLES
    input,   \* the C string handed to the operation under test
    a, b, c, \* stored EMAIL_ADDR values (rows), or NULL
    pc,      \* which operation has been applied to the inputs
    out      \* what the operation returned / raised

vars == <<input, a, b, c, pc, out>>

NULL == [null |-> TRUE]

(***************************************************************************)
(* Bytes.                                                                  *)
(***************************************************************************)
Printable ==
    << " ", "!", "\"", "#", "$", "%", "&", "'", "(", ")", "*", "+", ",", "-", ".", "/",
       "0", "1", "2", "3", "4", "5", "6", "7", "8", "9", ":", ";", "<", "=", ">", "?",
       "@", "A", "B", "C", "D", "E", "F", "G", "H", "I", "J", "K", "L", "M", "N", "O",
       "P", "Q", "R", "S", "T", "U", "V", "W", "X", "Y", "Z", "[", "\\", "]", "^", "_",
       "BACKTICK", "a", "b", "c", "d", "e", "f", "g", "h", "i", "j", "k", "l", "m", "n", "o",
       "p", "q", "r", "s", "t", "u", "v", "w", "x", "y", "z", "{", "|", "}", "~" >>

\* The ASCII code of a printable character, 32..126.
Ord == [ch \in {Printable[i] : i \in 1..95} |->
            31 + (CHOOSE i \in 1..95 : Printable[i] = ch)]

\* The byte string of a tuple of characters.
Str(chars) == [i \in 1..Len(chars) |-> Ord[chars[i]]]

\* *(s + i - 1) for a NUL-terminated string s.
At(s, i) == IF i \in 1..Len(s) THEN s[i] ELSE 0

\* All byte strings over alphabet of length lo..hi.
StringsOver(alphabet, lo, hi) ==
    UNION {[1..n -> alphabet] : n \in lo..hi}

Min(x, y) == IF x < y THEN x ELSE y

(***************************************************************************)
(* PostgreSQL port library: pg_tolower, pg_strncasecmp (ASCII range; the   *)
(* locale branch for bytes >= 128 is never taken on validated addresses).  *)
(***************************************************************************)
pg_tolower_add32(ch) ==
    IF (ch >= Ord["A"] /\ ch <= Ord["Z"]) \/ (ch >= Ord["a"] /\ ch <= Ord["z"])
    THEN ch + (Ord["a"] - Ord["A"]) ELSE ch

\* A pg_tolower that leaves every byte as it is.
pg_tolower_identity(ch) == ch

pg_tolower(ch) ==
    IF ch >= Ord["A"] /\ ch <= Ord["Z"] THEN ch + (Ord["a"] - Ord["A"]) ELSE ch

RECURSIVE strncasecmp_from(_, _, _, _)
strncasecmp_from(s1, s2, n, i) ==
    IF i > n THEN 0
    ELSE LET ch1 == pg_tolower(At(s1, i))
             ch2 == pg_tolower(At(s2, i))
         IN  IF ch1 # ch2 THEN ch1 - ch2
             ELSE IF ch1 = 0 THEN 0
             ELSE strncasecmp_from(s1, s2, n, i + 1)

pg_strncasecmp(s1, s2, n) == strncasecmp_from(s1, s2, n, 1)

\* memcmp: the sign is that of the first differing byte pair; the value
\* returned here is their difference, as the usual C libraries return.
RECURSIVE memcmp_from(_, _, _, _)
memcmp_from(s1, s2, n, i) ==
    IF i > n THEN 0
    ELSE IF At(s1, i) # At(s2, i) THEN At(s1, i) - At(s2, i)
    ELSE memcmp_from(s1, s2, n, i + 1)

memcmp(s1, s2, n) == memcmp_from(s1, s2, n, 1)

\* strncmp(s, prefix, Len(prefix)) == 0
HasPrefix(s, prefix) ==
    /\ Len(s) >= Len(prefix)
    /\ \A i \in 1..Len(prefix) : s[i] = prefix[i]

(***************************************************************************)
(* common.c                                                                *)
(***************************************************************************)
bounded_strcasecmp(s1, s2) ==
    LET len1 == Len(s1)
        len2 == Len(s2)
        cmp  == pg_strncasecmp(s1, s2, Min(len1, len2))
    IN  IF cmp = 0
        THEN IF len1 < len2 THEN -1
             ELSE IF len1 > len2 THEN 1
             ELSE 0
        ELSE cmp

(***************************************************************************)
(* local.c: the local-part validator.                                      *)
(***************************************************************************)
is_valid_unquoted_char(ch) ==
    \/ (ch >= Ord["A"] /\ ch <= Ord["Z"])
    \/ (ch >= Ord["a"] /\ ch <= Ord["z"])
    \/ (ch >= Ord["0"] /\ ch <= Ord["9"])
    \/ ch \in {Ord["!"], Ord["#"], Ord["$"], Ord["%"], Ord["&"], Ord["'"],
               Ord["*"], Ord["+"], Ord["-"], Ord["/"], Ord["="], Ord["?"],
               Ord["^"], Ord["_"], Ord["BACKTICK"], Ord["{"], Ord["|"], Ord["}"],
               Ord["~"], Ord["."]}

is_valid_quoted_char(ch) ==
    ch >= 32 /\ ch <= 126 /\ ch # Ord["\\"] /\ ch # Ord["\""]

\* The loop of the quoted branch, from index i (1-based) up to len - 1.
RECURSIVE quoted_walk(_, _, _)
quoted_walk(s, i, prev_was_backslash) ==
    IF i >= Len(s) THEN ""
    ELSE LET ch == s[i]
         IN  IF prev_was_backslash
             THEN IF ch # Ord[" "] /\ ch # 9 /\ (ch < 32 \/ ch > 126)
                  THEN "invalid character after backslash in quoted local part"
                  ELSE quoted_walk(s, i + 1, FALSE)
             ELSE IF ch = Ord["\\"] THEN quoted_walk(s, i + 1, TRUE)
             ELSE IF ~is_valid_quoted_char(ch)
                  THEN "invalid character in quoted local part"
             ELSE quoted_walk(s, i + 1, FALSE)

\* The loop of the unquoted branch; "" when every byte passes.
RECURSIVE unquoted_walk(_, _, _)
unquoted_walk(s, i, prev_was_dot) ==
    IF i > Len(s) THEN ""
    ELSE LET ch == s[i]
         IN  IF ch = Ord["."]
             THEN IF prev_was_dot
                  THEN "unquoted local part cannot contain consecutive dots"
                  ELSE unquoted_walk(s, i + 1, TRUE)
             ELSE IF ~is_valid_unquoted_char(ch)
                  THEN "invalid character in unquoted local part"
             ELSE unquoted_walk(s, i + 1, FALSE)

\* validate_email_local_part with the length limit tested as len >= 64.
validate_email_local_part_ge64(local_part) ==
    LET len == Len(local_part)
    IN  IF len = 0 THEN "local part cannot be empty"
        ELSE IF len >= 64 THEN "local part exceeds maximum length of 64 characters"
        ELSE IF local_part[1] = Ord["\""] /\ local_part[len] = Ord["\""]
        THEN IF len <= 2 THEN "quoted local part cannot be empty"
             ELSE quoted_walk(local_part, 2, FALSE)
        ELSE IF local_part[1] = Ord["."] \/ local_part[len] = Ord["."]
             THEN "unquoted local part cannot begin or end with a dot"
             ELSE unquoted_walk(local_part, 1, FALSE)

\* validate_email_local_part: "" for true, else the error message.
validate_email_local_part(local_part) ==
    LET len == Len(local_part)
    IN  IF len = 0 THEN "local part cannot be empty"
        ELSE IF len > 64 THEN "local part exceeds maximum length of 64 characters"
        ELSE IF local_part[1] = Ord["\""] /\ local_part[len] = Ord["\""]
        THEN IF len <= 2 THEN "quoted local part cannot be empty"
             ELSE quoted_walk(local_part, 2, FALSE)
        ELSE IF local_part[1] = Ord["."] \/ local_part[len] = Ord["."]
             THEN "unquoted local part cannot begin or end with a dot"
             ELSE unquoted_walk(local_part, 1, FALSE)

(***************************************************************************)
(* pg_email_opt.c: find_valid_at.                                          *)
(***************************************************************************)
\* The scan loop without the in_quotes test on '@'.
RECURSIVE scan_from_any_at(_, _, _, _, _)
scan_from_any_at(s, p, in_quotes, escaped, at_pos) ==
    IF p > Len(s)
    THEN [in_quotes |-> in_quotes, escaped |-> escaped, at_pos |-> at_pos]
    ELSE IF escaped THEN scan_from_any_at(s, p + 1, in_quotes, FALSE, at_pos)
    ELSE IF s[p] = Ord["\\"] THEN scan_from_any_at(s, p + 1, in_quotes, TRUE, at_pos)
    ELSE IF s[p] = Ord["\""] THEN scan_from_any_at(s, p + 1, ~in_quotes, FALSE, at_pos)
    ELSE IF s[p] = Ord["@"] THEN scan_from_any_at(s, p + 1, in_quotes, FALSE, p)
    ELSE scan_from_any_at(s, p + 1, in_quotes, escaped, at_pos)

\* The scan loop; at_pos is a 1-based index, 0 for the NULL pointer.
RECURSIVE scan_from(_, _, _, _, _)
scan_from(s, p, in_quotes, escaped, at_pos) ==
    IF p > Len(s)
    THEN [in_quotes |-> in_quotes, escaped |-> escaped, at_pos |-> at_pos]
    ELSE IF escaped THEN scan_from(s, p + 1, in_quotes, FALSE, at_pos)
    ELSE IF s[p] = Ord["\\"] THEN scan_from(s, p + 1, in_quotes, TRUE, at_pos)
    ELSE IF s[p] = Ord["\""] THEN scan_from(s, p + 1, ~in_quotes, FALSE, at_pos)
    ELSE IF s[p] = Ord["@"] /\ ~in_quotes THEN scan_from(s, p + 1, in_quotes, FALSE, p)
    ELSE scan_from(s, p + 1, in_quotes, escaped, at_pos)

scan(input_text) == scan_from(input_text, 1, FALSE, FALSE, 0)

\* The scan loop with the backslash treated as an ordinary byte.
RECURSIVE scan_from_no_escape(_, _, _, _)
scan_from_no_escape(s, p, in_quotes, at_pos) ==
    IF p > Len(s)
    THEN [in_quotes |-> in_quotes, escaped |-> FALSE, at_pos |-> at_pos]
    ELSE IF s[p] = Ord["\""] THEN scan_from_no_escape(s, p + 1, ~in_quotes, at_pos)
    ELSE IF s[p] = Ord["@"] /\ ~in_quotes THEN scan_from_no_escape(s, p + 1, in_quotes, p)
    ELSE scan_from_no_escape(s, p + 1, in_quotes, at_pos)

\* find_valid_at on that scan loop.
find_valid_at_no_escape(input_text) ==
    LET end == scan_from_no_escape(input_text, 1, FALSE, 0)
    IN  IF end.in_quotes
        THEN [error |-> "unterminated quotes in email address", at_pos |-> 0]
        ELSE [error |-> "", at_pos |-> end.at_pos]

\* find_valid_at with the trailing-backslash check made first.
find_valid_at_escape_first(input_text) ==
    LET end == scan_from(input_text, 1, FALSE, FALSE, 0)
    IN  IF end.escaped
        THEN [error |-> "invalid trailing backslash in email address", at_pos |-> 0]
        ELSE IF end.in_quotes
        THEN [error |-> "unterminated quotes in email address", at_pos |-> 0]
        ELSE [error |-> "", at_pos |-> end.at_pos]

\* find_valid_at: the error it raises ("" for none) and the pointer returned.
find_valid_at(input_text) ==
    LET end == scan(input_text)
    IN  IF end.in_quotes
        THEN [error |-> "unterminated quotes in email address", at_pos |-> 0]
        ELSE IF end.escaped
        THEN [error |-> "invalid trailing backslash in email address", at_pos |-> 0]
        ELSE [error |-> "", at_pos |-> end.at_pos]

(***************************************************************************)
(* ip.c: bracketed IP literals.                                            *)
(***************************************************************************)
\* The loop of is_valid_ipv4 from index p; FALSE on an early return false,
\* else the value of the final return.
RECURSIVE ipv4_from(_, _, _, _)
ipv4_from(s, p, curr_num, dots) ==
    IF p > Len(s) THEN At(s, p - 1) # Ord["."] /\ dots = 3
    ELSE IF s[p] = Ord["."]
    THEN IF p = 1 \/ At(s, p - 1) = Ord["."] THEN FALSE
         ELSE ipv4_from(s, p + 1, 0, dots + 1)
    ELSE IF s[p] < Ord["0"] \/ s[p] > Ord["9"] THEN FALSE
    ELSE LET num == curr_num * 10 + (s[p] - Ord["0"])
         IN  IF num > 255 THEN FALSE ELSE ipv4_from(s, p + 1, num, dots)

is_valid_ipv4(ipv4_str) ==
    IF Len(ipv4_str) = 0 THEN FALSE ELSE ipv4_from(ipv4_str, 1, 0, 0)

\* seg is the index of the segment's first byte in s.
is_valid_ipv6_segment(s, seg, len) ==
    IF len > 4 \/ len = 0 THEN FALSE
    ELSE \A i \in 0..(len - 1) :
            LET ch == At(s, seg + i)
            IN  \/ (ch >= Ord["0"] /\ ch <= Ord["9"])
                \/ (ch >= Ord["a"] /\ ch <= Ord["f"])
                \/ (ch >= Ord["A"] /\ ch <= Ord["F"])

IPv6Prefix == Str(<<"I", "P", "v", "6", ":">>)

\* The tail of is_valid_ipv6: the last segment and the segment count.
ipv6_finish(s, p, seg_start, segments, has_double_colon) ==
    LET seg_len == p - seg_start
        bad     == seg_len > 0 /\ ~is_valid_ipv6_segment(s, seg_start, seg_len)
        total   == IF seg_len > 0 THEN segments + 1 ELSE segments
    IN  IF bad THEN FALSE
        ELSE IF has_double_colon THEN ~(total > 7)
        ELSE ~(total # 8)

\* The while loop of is_valid_ipv6; p and seg_start are 1-based indexes.
RECURSIVE ipv6_from(_, _, _, _, _)
ipv6_from(s, p, seg_start, segments, has_double_colon) ==
    IF p > Len(s) THEN ipv6_finish(s, p, seg_start, segments, has_double_colon)
    ELSE IF s[p] = Ord[":"]
    THEN LET seg_len == p - seg_start
             bad     == seg_len > 0 /\ ~is_valid_ipv6_segment(s, seg_start, seg_len)
             counted == IF seg_len > 0 THEN segments + 1 ELSE segments
         IN  IF bad THEN FALSE
             ELSE IF At(s, p + 1) = Ord[":"]
             THEN IF has_double_colon THEN FALSE
                  ELSE ipv6_from(s, p + 2, p + 2, counted, TRUE)
             ELSE IF p = 1 \/ At(s, p - 1) = Ord[":"] THEN FALSE
             ELSE ipv6_from(s, p + 1, p + 1, counted, has_double_colon)
    ELSE ipv6_from(s, p + 1, seg_start, segments, has_double_colon)

\* seg_start is taken before the "IPv6:" prefix is skipped.
ipv6_first_p(ipv6_str) == IF HasPrefix(ipv6_str, IPv6Prefix) THEN 6 ELSE 1

is_valid_ipv6(ipv6_str) ==
    IF Len(ipv6_str) = 0 THEN FALSE
    ELSE ipv6_from(ipv6_str, ipv6_first_p(ipv6_str), 1, 0, FALSE)

\* validate_ip_literal: "" for true, else the error message.
validate_ip_literal(ip_str) ==
    LET len == Len(ip_str)
    IN  IF len < 2 \/ ip_str[1] # Ord["["] \/ ip_str[len] # Ord["]"]
        THEN "IP literal must be enclosed in square brackets"
        ELSE LET ip == SubSeq(ip_str, 2, len - 1)
             IN  IF HasPrefix(ip, IPv6Prefix)
                 THEN IF is_valid_ipv6(ip) THEN "" ELSE "invalid IPv6 address"
                 ELSE IF is_valid_ipv4(ip) THEN "" ELSE "invalid IPv4 address"

(***************************************************************************)
(* domain.h: standard domain names.                                        *)
(***************************************************************************)
MAX_LABEL_LENGTH == 63

MAX_DOMAIN_LENGTH == 255

is_valid_domain_char(ch) ==
    \/ (ch >= Ord["A"] /\ ch <= Ord["Z"])
    \/ (ch >= Ord["a"] /\ ch <= Ord["z"])
    \/ (ch >= Ord["0"] /\ ch <= Ord["9"])
    \/ ch = Ord["-"]
    \/ ch = Ord["."]

\* str is the index in s where the NUL-terminated string starts.
is_all_numeric(s, str) ==
    \A i \in str..Len(s) : s[i] >= Ord["0"] /\ s[i] <= Ord["9"]

\* The label checks with the length test off by one.
label_error_ge(s, p, label_start, label_len) ==
    IF label_len = 0 THEN "empty label in domain name"
    ELSE IF label_len >= MAX_LABEL_LENGTH THEN "domain label exceeds maximum length"
    ELSE IF At(s, label_start) = Ord["-"] \/ At(s, p - 1) = Ord["-"]
    THEN "domain label cannot start or end with hyphen"
    ELSE ""

\* The label checks made at a dot and again after the loop, with p the index
\* of the dot (or of the terminating NUL).
label_error(s, p, label_start, label_len) ==
    IF label_len = 0 THEN "empty label in domain name"
    ELSE IF label_len > MAX_LABEL_LENGTH THEN "domain label exceeds maximum length"
    ELSE IF At(s, label_start) = Ord["-"] \/ At(s, p - 1) = Ord["-"]
    THEN "domain label cannot start or end with hyphen"
    ELSE ""

\* One iteration of the for loop, at byte p; st holds the loop's variables
\* and the message of the return false taken, "" while none is.
domain_step(s, p, st) ==
    IF s[p] = Ord["."]
    THEN IF label_error(s, p, st.label_start, st.label_len) # ""
         THEN [st EXCEPT !.error = label_error(s, p, st.label_start, st.label_len)]
         ELSE [label_start |-> p + 1, label_len |-> 0, had_dot |-> TRUE, error |-> ""]
    ELSE IF ~is_valid_domain_char(s[p])
    THEN [st EXCEPT !.error = "invalid character in domain name"]
    ELSE [st EXCEPT !.label_len = st.label_len + 1]

\* The iterations for p = lo..hi in order, stopping at the first return; the
\* range is halved so that the evaluation does not nest once per byte.
RECURSIVE domain_loop(_, _, _, _)
domain_loop(s, lo, hi, st) ==
    IF st.error # "" \/ lo > hi THEN st
    ELSE IF lo = hi THEN domain_step(s, lo, st)
    ELSE domain_loop(s, (lo + hi) \div 2 + 1, hi,
                     domain_loop(s, lo, (lo + hi) \div 2, st))

validate_standard_domain(domain) ==
    IF Len(domain) > MAX_DOMAIN_LENGTH THEN "domain name exceeds maximum length"
    ELSE LET st == domain_loop(domain, 1, Len(domain),
                               [label_start |-> 1, label_len |-> 0,
                                had_dot |-> FALSE, error |-> ""])
             p  == Len(domain) + 1
         IN  IF st.error # "" THEN st.error
             ELSE IF label_error(domain, p, st.label_start, st.label_len) # ""
             THEN label_error(domain, p, st.label_start, st.label_len)
             ELSE IF ~st.had_dot THEN "domain must contain at least two parts"
             ELSE IF is_all_numeric(domain, st.label_start)
             THEN "top-level domain cannot be all numeric"
             ELSE ""

validate_email_domain(domain) ==
    IF Len(domain) = 0 THEN "domain cannot be empty"
    ELSE IF domain[1] = Ord["["] THEN validate_ip_literal(domain)
    ELSE validate_standard_domain(domain)

(***************************************************************************)
(* pg_email_opt.c: the stored value and the input function.                *)
(***************************************************************************)
\* make_email_addr: the EMAIL_ADDR blob, or the length error it raises.
make_email_addr(local_part, domain) ==
    IF Len(local_part) > 64 THEN [error |-> "email local part too long"]
    ELSE IF Len(domain) > 255 THEN [error |-> "email domain too long"]
    ELSE [error |-> "",
          addr  |-> [local_len |-> Len(local_part), domain_len |-> Len(domain),
                     local |-> local_part, domain |-> domain]]

get_local_part(addr) == addr.local

get_domain(addr) == addr.domain

\* The local-part slice taken one byte too long.
split_local_off_by_one(input_text, at_pos) == SubSeq(input_text, 1, at_pos)

\* The two slices email_addr_in takes around at_pos.
split_local(input_text, at_pos) == SubSeq(input_text, 1, at_pos - 1)

split_domain(input_text, at_pos) == SubSeq(input_text, at_pos + 1, Len(input_text))

\* email_addr_in: the error raised ("" for none), the slices taken and the
\* value returned.
email_addr_in(input_text) ==
    LET found == find_valid_at(input_text)
    IN  IF found.error # ""
        THEN [error |-> found.error, at_pos |-> 0]
        ELSE IF found.at_pos = 0
        THEN [error |-> "invalid input syntax for type emailaddr", at_pos |-> 0]
        ELSE LET local_part == split_local(input_text, found.at_pos)
                 domain     == split_domain(input_text, found.at_pos)
                 sliced     == [at_pos |-> found.at_pos,
                                local_part |-> local_part, domain |-> domain]
             IN  IF validate_email_local_part(local_part) # ""
                 THEN [error |-> validate_email_local_part(local_part)] @@ sliced
                 ELSE IF validate_email_domain(domain) # ""
                 THEN [error |-> validate_email_domain(domain)] @@ sliced
                 ELSE make_email_addr(local_part, domain) @@ sliced

(***************************************************************************)
(* local.c: collapsibility, hash and comparison of local-parts.            *)
(***************************************************************************)
\* The loop over content = quoted_part + 1, content_len = len - 2.
RECURSIVE content_walk(_, _, _)
content_walk(content, i, prev_was_dot) ==
    IF i > Len(content) THEN TRUE
    ELSE IF content[i] = Ord["."]
    THEN IF prev_was_dot THEN FALSE ELSE content_walk(content, i + 1, TRUE)
    ELSE IF ~is_valid_unquoted_char(content[i]) THEN FALSE
    ELSE content_walk(content, i + 1, FALSE)

\* quoted_content_valid_as_unquoted without the test of the first and last
\* content byte.
quoted_content_valid_as_unquoted_no_edge_test(quoted_part) ==
    content_walk(SubSeq(quoted_part, 2, Len(quoted_part) - 1), 1, FALSE)

quoted_content_valid_as_unquoted(quoted_part) ==
    LET len == Len(quoted_part)
    IN  IF At(quoted_part, 2) = Ord["."] \/ At(quoted_part, len - 1) = Ord["."]
        THEN FALSE
        ELSE content_walk(SubSeq(quoted_part, 2, len - 1), 1, FALSE)

\* A uint32 is kept as its two 16-bit halves <<high, low>>, so that no
\* intermediate value leaves the range of the checker's integers.
U32(n) == <<n \div 65536, n % 65536>>

\* hash = (hash << 5) + hash + byte on a uint32: (hash * 33 + byte) mod 2^32.
hash_step(hash, byte) ==
    LET low == hash[2] * 33 + byte
    IN  <<(hash[1] * 33 + (low \div 65536)) % 65536, low % 65536>>

RECURSIVE hash_bytes(_, _, _, _, _)
hash_bytes(hash, s, i, last, lower) ==
    IF i > last THEN hash
    ELSE hash_bytes(hash_step(hash, IF lower THEN pg_tolower(s[i]) ELSE s[i]),
                    s, i + 1, last, lower)

hash_local_part_raw_collapsible(local) ==
    LET len       == Len(local)
        is_quoted == local[1] = Ord["\""] /\ local[len] = Ord["\""]
    IN  IF is_quoted /\ quoted_content_valid_as_unquoted(local)
        THEN hash_bytes(U32(5381), local, 2, len - 1, FALSE)
        ELSE IF is_quoted THEN hash_bytes(U32(5381), local, 1, len, FALSE)
        ELSE hash_bytes(U32(5381), local, 1, len, TRUE)

\* hash_local_part that hashes every quoted local-part with its quotes.
hash_local_part_quotes_kept(local) ==
    LET len       == Len(local)
        is_quoted == local[1] = Ord["\""] /\ local[len] = Ord["\""]
    IN  IF is_quoted THEN hash_bytes(U32(5381), local, 1, len, FALSE)
        ELSE hash_bytes(U32(5381), local, 1, len, TRUE)

hash_local_part(local) ==
    LET len       == Len(local)
        is_quoted == local[1] = Ord["\""] /\ local[len] = Ord["\""]
    IN  IF is_quoted /\ quoted_content_valid_as_unquoted(local)
        THEN hash_bytes(U32(5381), local, 2, len - 1, TRUE)
        ELSE IF is_quoted THEN hash_bytes(U32(5381), local, 1, len, FALSE)
        ELSE hash_bytes(U32(5381), local, 1, len, TRUE)

\* compare_local_parts that returns cmp as it is in the mixed branch.
compare_local_parts_no_reversal(local1, local2) ==
    LET len1       == Len(local1)
        len2       == Len(local2)
        is_quoted1 == len1 >= 2 /\ local1[1] = Ord["\""] /\ local1[len1] = Ord["\""]
        is_quoted2 == len2 >= 2 /\ local2[1] = Ord["\""] /\ local2[len2] = Ord["\""]
        quoted     == IF is_quoted1 THEN local1 ELSE local2
        unquoted   == IF is_quoted1 THEN local2 ELSE local1
    IN  IF ~is_quoted1 /\ ~is_quoted2 THEN bounded_strcasecmp(local1, local2)
        ELSE IF is_quoted1 /\ is_quoted2
        THEN LET cmp == memcmp(local1, local2, Min(len1, len2))
             IN  IF cmp = 0
                 THEN IF len1 < len2 THEN -1
                      ELSE IF len1 > len2 THEN 1
                      ELSE 0
                 ELSE cmp
        ELSE IF quoted_content_valid_as_unquoted(quoted)
        THEN bounded_strcasecmp(SubSeq(quoted, 2, Len(quoted) - 1), unquoted)
        ELSE IF is_quoted1 THEN 1 ELSE -1

\* compare_local_parts with the last return statement's two values exchanged.
compare_local_parts_quoted_first(local1, local2) ==
    LET len1       == Len(local1)
        len2       == Len(local2)
        is_quoted1 == len1 >= 2 /\ local1[1] = Ord["\""] /\ local1[len1] = Ord["\""]
        is_quoted2 == len2 >= 2 /\ local2[1] = Ord["\""] /\ local2[len2] = Ord["\""]
        quoted     == IF is_quoted1 THEN local1 ELSE local2
        unquoted   == IF is_quoted1 THEN local2 ELSE local1
    IN  IF ~is_quoted1 /\ ~is_quoted2 THEN bounded_strcasecmp(local1, local2)
        ELSE IF is_quoted1 /\ is_quoted2
        THEN LET cmp == memcmp(local1, local2, Min(len1, len2))
             IN  IF cmp = 0
                 THEN IF len1 < len2 THEN -1
                      ELSE IF len1 > len2 THEN 1
                      ELSE 0
                 ELSE cmp
        ELSE IF quoted_content_valid_as_unquoted(quoted)
        THEN LET cmp == bounded_strcasecmp(SubSeq(quoted, 2, Len(quoted) - 1),
                                           unquoted)
             IN  IF is_quoted1 THEN -cmp ELSE cmp
        ELSE IF is_quoted1 THEN -1 ELSE 1

compare_local_parts(local1, local2) ==
    LET len1       == Len(local1)
        len2       == Len(local2)
        is_quoted1 == len1 >= 2 /\ local1[1] = Ord["\""] /\ local1[len1] = Ord["\""]
        is_quoted2 == len2 >= 2 /\ local2[1] = Ord["\""] /\ local2[len2] = Ord["\""]
        quoted     == IF is_quoted1 THEN local1 ELSE local2
        unquoted   == IF is_quoted1 THEN local2 ELSE local1
    IN  IF ~is_quoted1 /\ ~is_quoted2 THEN bounded_strcasecmp(local1, local2)
        ELSE IF is_quoted1 /\ is_quoted2
        THEN LET cmp == memcmp(local1, local2, Min(len1, len2))
             IN  IF cmp = 0
                 THEN IF len1 < len2 THEN -1
                      ELSE IF len1 > len2 THEN 1
                      ELSE 0
                 ELSE cmp
        ELSE IF quoted_content_valid_as_unquoted(quoted)
        THEN LET cmp == bounded_strcasecmp(SubSeq(quoted, 2, Len(quoted) - 1),
                                           unquoted)
             IN  IF is_quoted1 THEN -cmp ELSE cmp
        ELSE IF is_quoted1 THEN 1 ELSE -1

(***************************************************************************)
(* pg_email_opt.c: equality, hash, comparison, normalization.              *)
(***************************************************************************)
email_addr_equals(addr1, addr2) ==
    IF addr1 = NULL \/ addr2 = NULL THEN FALSE
    ELSE IF bounded_strcasecmp(get_domain(addr1), get_domain(addr2)) # 0 THEN FALSE
    ELSE IF compare_local_parts(get_local_part(addr1), get_local_part(addr2)) # 0
    THEN FALSE
    ELSE TRUE

\* email_addr_hash without the '@' folded in between local-part and domain.
email_addr_hash_no_at(addr) ==
    IF addr = NULL THEN U32(0)
    ELSE hash_bytes(hash_local_part(get_local_part(addr)),
                    get_domain(addr), 1, addr.domain_len, TRUE)

email_addr_hash(addr) ==
    IF addr = NULL THEN U32(0)
    ELSE hash_bytes(hash_step(hash_local_part(get_local_part(addr)), Ord["@"]),
                    get_domain(addr), 1, addr.domain_len, TRUE)

\* email_addr_cmp with the domains compared byte for byte.
email_addr_cmp_exact_domain(addr1, addr2) ==
    IF addr1 = NULL THEN (IF addr2 = NULL THEN 0 ELSE -1)
    ELSE IF addr2 = NULL THEN 1
    ELSE LET cmp == memcmp(get_domain(addr1), get_domain(addr2),
                           Min(addr1.domain_len, addr2.domain_len))
         IN  IF cmp # 0 THEN cmp
             ELSE compare_local_parts(get_local_part(addr1), get_local_part(addr2))

email_addr_cmp(addr1, addr2) ==
    IF addr1 = NULL THEN (IF addr2 = NULL THEN 0 ELSE -1)
    ELSE IF addr2 = NULL THEN 1
    ELSE LET cmp == bounded_strcasecmp(get_domain(addr1), get_domain(addr2))
         IN  IF cmp # 0 THEN cmp
             ELSE compare_local_parts(get_local_part(addr1), get_local_part(addr2))

\* email_addr_normalized_local_part that strips the quotes of every quoted
\* local-part.
email_addr_normalized_local_part_always_unquote(email) ==
    LET local_part == get_local_part(email)
        is_quoted  == /\ local_part[1] = Ord["\""]
                      /\ local_part[email.local_len] = Ord["\""]
    IN  IF is_quoted
        THEN SubSeq(local_part, 2, email.local_len - 1)
        ELSE local_part

email_addr_normalized_local_part(email) ==
    LET local_part == get_local_part(email)
        is_quoted  == /\ local_part[1] = Ord["\""]
                      /\ local_part[email.local_len] = Ord["\""]
    IN  IF is_quoted /\ quoted_content_valid_as_unquoted(local_part)
        THEN SubSeq(local_part, 2, email.local_len - 1)
        ELSE local_part

\* email_addr_normalized_domain that copies the domain as it is.
email_addr_normalized_domain_as_is(email) == get_domain(email)

email_addr_normalized_domain_add32(email) ==
    [i \in 1..email.domain_len |-> pg_tolower_add32(get_domain(email)[i])]

email_addr_normalized_domain(email) ==
    [i \in 1..email.domain_len |-> pg_tolower(get_domain(email)[i])]

email_addr_normalize(email) ==
    IF email = NULL THEN NULL
    ELSE LET norm_local  == email_addr_normalized_local_part(email)
             norm_domain == email_addr_normalized_domain(email)
         IN  [local_len |-> Len(norm_local), domain_len |-> Len(norm_domain),
              local |-> norm_local, domain |-> norm_domain]

\* email_addr_normalize_eq: email_addr_equals on the two normalized rows;
\* SQL NULL is returned for a NULL argument.
email_addr_normalize_eq(addr1, addr2) ==
    IF addr1 = NULL \/ addr2 = NULL THEN NULL
    ELSE email_addr_equals(email_addr_normalize(addr1), email_addr_normalize(addr2))

\* email_addr_domain_cmp: lengths of the lower-cased domains first, memcmp
\* only between domains of one length.
email_addr_domain_cmp(addr1, addr2) ==
    IF addr1 = NULL THEN (IF addr2 = NULL THEN 0 ELSE -1)
    ELSE IF addr2 = NULL THEN 1
    ELSE LET domain1 == email_addr_normalized_domain(addr1)
             domain2 == email_addr_normalized_domain(addr2)
         IN  IF Len(domain1) < Len(domain2) THEN -1
             ELSE IF Len(domain1) > Len(domain2) THEN 1
             ELSE memcmp(domain1, domain2, Len(domain1))

(***************************************************************************)
(* The input function applied to raw text: SpecSplit.                      *)
(***************************************************************************)
MaxTextLen == 5

SplitAlphabet == {Ord["a"], Ord["@"], Ord["\""], Ord["\\"]}

\* a"@"b@example.com
SampleQuotedAt ==
    Str(<<"a", "\"", "@", "\"", "b", "@",
          "e", "x", "a", "m", "p", "l", "e", ".", "c", "o", "m">>)

SplitTexts == StringsOver(SplitAlphabet, 0, MaxTextLen) \cup {SampleQuotedAt}

InitSplit ==
    /\ input \in SplitTexts
    /\ a = NULL /\ b = NULL /\ c = NULL
    /\ pc = "call"
    /\ out = NULL

\* email_addr_in(input)
EmailAddrIn ==
    /\ pc = "call"
    /\ out' = email_addr_in(input)
    /\ a' = IF out'.error = "" THEN out'.addr ELSE NULL
    /\ pc' = "returned"
    /\ UNCHANGED <<input, b, c>>

NextSplit == EmailAddrIn

SpecSplit == InitSplit /\ [][NextSplit]_vars

(***************************************************************************)
(* Properties of the splitter, stated on the bytes of the text alone.      *)
(***************************************************************************)
\* The number of consecutive backslashes that end right before position i.
BackslashRun(s, i) ==
    Cardinality({k \in 1..(i - 1) : \A j \in (i - k)..(i - 1) : s[j] = Ord["\\"]})

\* Position i follows an active escape: an odd run of backslashes.
EscapedAt(s, i) == BackslashRun(s, i) % 2 = 1

\* Position i lies inside a quoted section: an odd number of unescaped
\* quotes precede it.
InQuotesAt(s, i) ==
    Cardinality({j \in 1..(i - 1) : s[j] = Ord["\""] /\ ~EscapedAt(s, j)}) % 2 = 1

\* The '@' bytes that are neither quoted nor escaped.
Separators(s) ==
    {i \in 1..Len(s) : s[i] = Ord["@"] /\ ~EscapedAt(s, i) /\ ~InQuotesAt(s, i)}

EndsInQuotes(s) == InQuotesAt(s, Len(s) + 1)

EndsEscaped(s) == EscapedAt(s, Len(s) + 1)

SplitSucceeded == pc = "returned" /\ out.at_pos # 0

\* C5: when the splitter succeeds, the position it returns is the last '@'
\* that is neither inside quotes nor escaped, and the slices are the bytes
\* before and after it; a"@"b@example.com splits into a"@"b and example.com.
C5_SplitAtLastUnquotedAt ==
    SplitSucceeded =>
        /\ out.at_pos \in Separators(input)
        /\ \A i \in Separators(input) : i <= out.at_pos
        /\ out.local_part = SubSeq(input, 1, out.at_pos - 1)
        /\ out.domain = SubSeq(input, out.at_pos + 1, Len(input))
        /\ input = SampleQuotedAt =>
              /\ out.local_part = Str(<<"a", "\"", "@", "\"", "b">>)
              /\ out.domain = Str(<<"e", "x", "a", "m", "p", "l", "e", ".", "c", "o", "m">>)

\* Witness of C5: a split that skipped a quoted '@' and an earlier separator.
C5_Witness ==
    /\ SplitSucceeded
    /\ \E i \in 1..(out.at_pos - 1) : input[i] = Ord["@"] /\ InQuotesAt(input, i)
    /\ \E i \in 1..(out.at_pos - 1) : i \in Separators(input)

\* The preconditions of the round trip on L: no unescaped '@', quotes balanced.
NoUnescapedAt(s) == \A i \in 1..Len(s) : s[i] = Ord["@"] => EscapedAt(s, i)

RoundTripsAt(k) ==
    /\ out.at_pos = k
    /\ out.local_part = SubSeq(input, 1, k - 1)
    /\ out.domain = SubSeq(input, k + 1, Len(input))

\* C6 as stated: for every L without unescaped '@' and with balanced quotes,
\* and every D, splitting L + '@' + D succeeds and yields exactly L and D.
C6_AsStated ==
    pc = "returned" =>
        \A k \in 1..Len(input) :
            LET L == SubSeq(input, 1, k - 1)
            IN  (input[k] = Ord["@"] /\ NoUnescapedAt(L) /\ ~EndsInQuotes(L))
                    => RoundTripsAt(k)

\* C6 amended: the round trip holds when, in addition, L does not end in an
\* active backslash and D has no unquoted unescaped '@', balanced quotes and
\* no trailing active backslash.
C6_SplitRoundTrip ==
    pc = "returned" =>
        \A k \in 1..Len(input) :
            LET L == SubSeq(input, 1, k - 1)
                D == SubSeq(input, k + 1, Len(input))
            IN  ( /\ input[k] = Ord["@"]
                  /\ NoUnescapedAt(L) /\ ~EndsInQuotes(L) /\ ~EndsEscaped(L)
                  /\ Separators(D) = {} /\ ~EndsInQuotes(D) /\ ~EndsEscaped(D) )
                    => RoundTripsAt(k)

\* Witness of C6: a round trip whose L holds an escaped '@', with a D that is
\* not empty.
C6_Witness ==
    /\ SplitSucceeded
    /\ LET L == out.local_part
           D == out.domain
       IN  /\ NoUnescapedAt(L) /\ ~EndsInQuotes(L) /\ ~EndsEscaped(L)
           /\ Separators(D) = {} /\ ~EndsInQuotes(D) /\ ~EndsEscaped(D)
           /\ \E i \in 1..Len(L) : L[i] = Ord["@"]
           /\ Len(D) > 0

\* C7: the error is the unterminated-quote one when the scan ends inside
\* quotes, else the trailing-backslash one when it ends escaped, else the
\* no-separator one when no '@' was recorded; the split succeeds otherwise.
C7_SplitErrorOrder ==
    pc = "returned" =>
        IF EndsInQuotes(input)
        THEN out.error = "unterminated quotes in email address"
        ELSE IF EndsEscaped(input)
        THEN out.error = "invalid trailing backslash in email address"
        ELSE IF Separators(input) = {}
        THEN out.error = "invalid input syntax for type emailaddr"
        ELSE out.at_pos # 0

\* Witness of C7: all three conditions hold at once and the first is reported.
C7_Witness ==
    /\ pc = "returned"
    /\ EndsInQuotes(input) /\ EndsEscaped(input) /\ Separators(input) = {}
    /\ out.error = "unterminated quotes in email address"

(***************************************************************************)
(* Stored addresses: what email_addr_in returns on the texts it accepts.   *)
(***************************************************************************)
MaxLocalLen == 3

LocalAlphabet ==
    {Ord["a"], Ord["A"], Ord["b"], Ord["."], Ord[" "], Ord["\""], Ord["\\"]}

SmallLocalAlphabet == {Ord["a"], Ord["A"], Ord[" "], Ord["\""]}

DomainSamples ==
    {Str(<<"a", ".", "b">>), Str(<<"A", ".", "b">>), Str(<<"b", ".", "a">>)}

LiteralSamples == {Str(<<"[", "1", ".", "1", ".", "1", ".", "1", "]">>)}

\* local + '@' + domain
FullEmail(local, domain) == local \o <<Ord["@"]>> \o domain

AddressTexts(alphabet, domains) ==
    {FullEmail(l, d) : l \in StringsOver(alphabet, 1, MaxLocalLen), d \in domains}

\* The rows a table of emailaddr can hold after INSERTs of these texts.
StoredFrom(texts) ==
    {email_addr_in(t).addr : t \in {u \in texts : email_addr_in(u).error = ""}}

PairStored == StoredFrom(AddressTexts(LocalAlphabet, DomainSamples))

TripleStored == StoredFrom(AddressTexts(SmallLocalAlphabet, DomainSamples))

NormStored == StoredFrom(AddressTexts(LocalAlphabet, DomainSamples \cup LiteralSamples))

IsQuoted(local) == local[1] = Ord["\""] /\ local[Len(local)] = Ord["\""]

IsCollapsible(local) == IsQuoted(local) /\ quoted_content_valid_as_unquoted(local)

(***************************************************************************)
(* Comparison and hash of two rows: SpecPair.                              *)
(***************************************************************************)
InitPair ==
    /\ input = <<>>
    /\ a \in PairStored /\ b \in PairStored /\ c = NULL
    /\ pc = "stored"
    /\ out = NULL

\* email_addr_cmp(a, b)
EmailAddrCmp ==
    /\ pc = "stored"
    /\ out' = [cmp |-> email_addr_cmp(a, b)]
    /\ pc' = "compared"
    /\ UNCHANGED <<input, a, b, c>>

\* email_addr_hash(a), email_addr_hash(b)
EmailAddrHash ==
    /\ pc = "compared"
    /\ out' = [cmp |-> out.cmp, hash_a |-> email_addr_hash(a),
               hash_b |-> email_addr_hash(b)]
    /\ pc' = "hashed"
    /\ UNCHANGED <<input, a, b, c>>

NextPair == EmailAddrCmp \/ EmailAddrHash

SpecPair == InitPair /\ [][NextPair]_vars

\* C1: two accepted addresses that compare equal have equal hashes, in each
\* local-part branch.
C1_EqualImpliesSameHash ==
    (pc = "hashed" /\ out.cmp = 0) => out.hash_a = out.hash_b

\* Witness of C1: a quoted collapsible local-part equal to an unquoted one of
\* another letter case, on domains of different case.
C1_Witness ==
    /\ pc = "hashed" /\ out.cmp = 0
    /\ IsCollapsible(a.local) /\ ~IsQuoted(b.local)
    /\ a.local # b.local /\ SubSeq(a.local, 2, Len(a.local) - 1) # b.local
    /\ a.domain # b.domain

(***************************************************************************)
(* Comparison of three rows: SpecOrder.                                    *)
(***************************************************************************)
InitOrder ==
    /\ input = <<>>
    /\ a \in TripleStored /\ b \in TripleStored /\ c \in TripleStored
    /\ pc = "stored"
    /\ out = NULL

\* email_addr_cmp(a, b), email_addr_cmp(b, c), email_addr_cmp(a, c)
EmailAddrCmp3 ==
    /\ pc = "stored"
    /\ out' = [ab |-> email_addr_cmp(a, b), bc |-> email_addr_cmp(b, c),
               ac |-> email_addr_cmp(a, c)]
    /\ pc' = "compared"
    /\ UNCHANGED <<input, a, b, c>>

NextOrder == EmailAddrCmp3

SpecOrder == InitOrder /\ [][NextOrder]_vars

\* C2: email_addr_cmp is transitive: a <= b and b <= c give a <= c.
C2_CmpTransitive ==
    (pc = "compared" /\ out.ab <= 0 /\ out.bc <= 0) => out.ac <= 0

\* C3: equality under email_addr_cmp is transitive: a = b and b = c give
\* a = c.
C3_EqualityTransitive ==
    (pc = "compared" /\ out.ab = 0 /\ out.bc = 0) => out.ac = 0

(***************************************************************************)
(* Normalization of a row, twice: SpecNorm.                                *)
(***************************************************************************)
InitNorm ==
    /\ input = <<>>
    /\ a \in NormStored /\ b = NULL /\ c = NULL
    /\ pc = "stored"
    /\ out = NULL

\* b := email_addr_normalize(a)
EmailAddrNormalize ==
    /\ pc = "stored"
    /\ b' = email_addr_normalize(a)
    /\ pc' = "normalized"
    /\ UNCHANGED <<input, a, c, out>>

\* c := email_addr_normalize(b)
EmailAddrNormalizeAgain ==
    /\ pc = "normalized"
    /\ c' = email_addr_normalize(b)
    /\ pc' = "renormalized"
    /\ UNCHANGED <<input, a, b, out>>

NextNorm == EmailAddrNormalize \/ EmailAddrNormalizeAgain

SpecNorm == InitNorm /\ [][NextNorm]_vars

\* C4: normalizing a normalized address changes neither the bytes nor the
\* lengths of its local-part and domain.
C4_NormalizeIdempotent ==
    pc = "renormalized" =>
        /\ c.local = b.local /\ c.local_len = b.local_len
        /\ c.domain = b.domain /\ c.domain_len = b.domain_len

\* Witness of C4: an address whose quotes and domain case the first
\* normalization changed.
C4_Witness ==
    /\ pc = "renormalized"
    /\ IsCollapsible(a.local)
    /\ b.local # a.local /\ b.domain # a.domain

(***************************************************************************)
(* Domain validation applied to a domain string: SpecIpv6, SpecIpv4,       *)
(* SpecDomain.                                                             *)
(***************************************************************************)
\* check_domain(input): the message of the error raised, "" for none.
CheckDomain ==
    /\ pc = "call"
    /\ out' = [error |-> validate_email_domain(input)]
    /\ pc' = "checked"
    /\ UNCHANGED <<input, a, b, c>>

NextDomain == CheckDomain

Bracketed(x) == <<Ord["["]>> \o x \o <<Ord["]"]>>

\* The interior X of a literal [X].
Interior(s) == SubSeq(s, 2, Len(s) - 1)

IsDigit(ch) == ch >= Ord["0"] /\ ch <= Ord["9"]

IsHexDigit(ch) ==
    \/ IsDigit(ch)
    \/ (ch >= Ord["a"] /\ ch <= Ord["f"])
    \/ (ch >= Ord["A"] /\ ch <= Ord["F"])

\* The fields of s separated by the byte sep, as <<first, last>> index pairs;
\* an empty field has last = first - 1.
Fields(s, sep) ==
    LET bounds == {0, Len(s) + 1} \cup {i \in 1..Len(s) : s[i] = sep}
    IN  {<<q[1] + 1, q[2] - 1>> :
            q \in {r \in bounds \X bounds :
                      /\ r[1] < r[2]
                      /\ ~\E m \in bounds : r[1] < m /\ m < r[2]}}

(*************************** IPv6 literals *********************************)
MaxIp6Len == 5

Ip6Alphabet == {Ord["1"], Ord["f"], Ord[":"]}

\* 2001:db8::1
SampleIp6 == Str(<<"2", "0", "0", "1", ":", "d", "b", "8", ":", ":", "1">>)

\* 2001::db8::1
SampleIp6TwoMarkers ==
    Str(<<"2", "0", "0", "1", ":", ":", "d", "b", "8", ":", ":", "1">>)

\* 1:2:3:4:5:6:7:8
SampleIp6Full ==
    Str(<<"1", ":", "2", ":", "3", ":", "4", ":", "5", ":", "6", ":", "7", ":", "8">>)

Ip6Literals ==
    {Bracketed(IPv6Prefix \o x) :
        x \in StringsOver(Ip6Alphabet, 0, MaxIp6Len)
              \cup {SampleIp6, SampleIp6TwoMarkers, SampleIp6Full}}

InitIpv6 ==
    /\ input \in Ip6Literals
    /\ a = NULL /\ b = NULL /\ c = NULL
    /\ pc = "call"
    /\ out = NULL

SpecIpv6 == InitIpv6 /\ [][NextDomain]_vars

\* The positions where a '::' starts.
DoubleColons(x) == {i \in 1..(Len(x) - 1) : x[i] = Ord[":"] /\ x[i + 1] = Ord[":"]}

\* The explicit segments: the maximal runs of bytes other than ':'.
Segments(x) == {f \in Fields(x, Ord[":"]) : f[2] >= f[1]}

\* X is colon-separated segments of 1..4 hex digits, with 8 segments and no
\* '::', or with one '::' and at most 7 explicit segments.
Ip6WellFormed(x) ==
    /\ \A i \in 1..Len(x) : IsHexDigit(x[i]) \/ x[i] = Ord[":"]
    /\ \A f \in Segments(x) : f[2] - f[1] + 1 <= 4
    /\ Len(x) > 0
    /\ x[1] = Ord[":"] => 1 \in DoubleColons(x)
    /\ x[Len(x)] = Ord[":"] => (Len(x) - 1) \in DoubleColons(x)
    /\ \/ DoubleColons(x) = {} /\ Cardinality(Segments(x)) = 8
       \/ Cardinality(DoubleColons(x)) = 1 /\ Cardinality(Segments(x)) <= 7

\* C8: every literal [IPv6:X] with X well-formed is accepted; [IPv6:2001:db8::1]
\* is.
C8_Ipv6LiteralAccepted ==
    pc = "checked" =>
        LET x == SubSeq(input, 7, Len(input) - 1)
        IN  Ip6WellFormed(x) => out.error = ""

(*************************** IPv4 literals *********************************)
MaxIp4Groups == 5

Ip4Groups ==
    {<<>>, Str(<<"0">>), Str(<<"2", "5", "5">>), Str(<<"2", "5", "6">>),
     Str(<<"0", "0", "0", "1">>), Str(<<"a">>)}

\* The groups joined by dots.
RECURSIVE JoinDots(_)
JoinDots(groups) ==
    IF Len(groups) = 0 THEN <<>>
    ELSE IF Len(groups) = 1 THEN groups[1]
    ELSE groups[1] \o <<Ord["."]>> \o JoinDots(Tail(groups))

\* 192.168.1.1 and 192.168.1.999
SampleIp4 == Str(<<"1", "9", "2", ".", "1", "6", "8", ".", "1", ".", "1">>)

SampleIp4Big ==
    Str(<<"1", "9", "2", ".", "1", "6", "8", ".", "1", ".", "9", "9", "9">>)

Ip4Literals ==
    {Bracketed(x) :
        x \in {JoinDots(g) : g \in UNION {[1..n -> Ip4Groups] : n \in 1..MaxIp4Groups}}
              \cup {SampleIp4, SampleIp4Big}}

InitIpv4 ==
    /\ input \in Ip4Literals
    /\ a = NULL /\ b = NULL /\ c = NULL
    /\ pc = "call"
    /\ out = NULL

SpecIpv4 == InitIpv4 /\ [][NextDomain]_vars

\* The decimal value of the digits s[first..last].
RECURSIVE DecimalValue(_, _, _)
DecimalValue(s, first, last) ==
    IF last < first THEN 0
    ELSE DecimalValue(s, first, last - 1) * 10 + (s[last] - Ord["0"])

\* X is exactly 4 dot-separated groups of 1..3 digits, each of value 0..255.
Ip4WellFormed(x) ==
    /\ Cardinality(Fields(x, Ord["."])) = 4
    /\ \A f \in Fields(x, Ord["."]) :
          /\ f[2] - f[1] + 1 \in 1..3
          /\ \A i \in f[1]..f[2] : IsDigit(x[i])
          /\ DecimalValue(x, f[1], f[2]) <= 255

\* C9: a literal [X] with X not starting with IPv6: is accepted if and only
\* if X is 4 dot-separated groups of 1..3 digits of value 0..255, and is
\* rejected as an invalid IPv4 address otherwise.
C9_Ipv4LiteralIff ==
    (pc = "checked" /\ ~HasPrefix(Interior(input), IPv6Prefix)) =>
        IF Ip4WellFormed(Interior(input))
        THEN out.error = ""
        ELSE out.error = "invalid IPv4 address"

(*************************** standard domains ******************************)
MaxLabels == 5

MaxRawDomainLen == 4

Rep(ch, n) == [i \in 1..n |-> ch]

\* Short labels, and labels around the length limit.
DomainLabels ==
    {<<>>, Str(<<"a">>), Str(<<"1">>),
     Rep(Ord["a"], MAX_LABEL_LENGTH - 1), Rep(Ord["a"], MAX_LABEL_LENGTH),
     Rep(Ord["a"], MAX_LABEL_LENGTH + 1)}

RawDomainAlphabet == {Ord["a"], Ord["Z"], Ord["1"], Ord["-"], Ord["."], Ord["_"]}

\* example.com and 123.456
SampleDomain == Str(<<"e", "x", "a", "m", "p", "l", "e", ".", "c", "o", "m">>)

SampleNumericDomain == Str(<<"1", "2", "3", ".", "4", "5", "6">>)

StandardDomains ==
    {d \in {JoinDots(g) : g \in UNION {[1..n -> DomainLabels] : n \in 1..MaxLabels}}
           \cup StringsOver(RawDomainAlphabet, 1, MaxRawDomainLen)
           \cup {SampleDomain, SampleNumericDomain} :
        Len(d) > 0 /\ d[1] # Ord["["]}

InitDomain ==
    /\ input \in StandardDomains
    /\ a = NULL /\ b = NULL /\ c = NULL
    /\ pc = "call"
    /\ out = NULL

SpecDomain == InitDomain /\ [][NextDomain]_vars

IsLetter(ch) ==
    (ch >= Ord["A"] /\ ch <= Ord["Z"]) \/ (ch >= Ord["a"] /\ ch <= Ord["z"])

\* The dot-separated label that ends the domain.
FinalLabel(s) == CHOOSE f \in Fields(s, Ord["."]) : f[2] = Len(s)

DomainWellFormed(s) ==
    /\ Len(s) <= 255
    /\ \A i \in 1..Len(s) :
          IsLetter(s[i]) \/ IsDigit(s[i]) \/ s[i] = Ord["-"] \/ s[i] = Ord["."]
    /\ \E i \in 1..Len(s) : s[i] = Ord["."]
    /\ \A f \in Fields(s, Ord["."]) :
          /\ f[2] - f[1] + 1 \in 1..63
          /\ s[f[1]] # Ord["-"] /\ s[f[2]] # Ord["-"]
    /\ \E i \in FinalLabel(s)[1]..FinalLabel(s)[2] : ~IsDigit(s[i])

\* C10: a non-empty domain that does not start with '[' is accepted if and
\* only if it is at most 255 bytes of letters, digits, '-' and '.', holds a
\* '.', has labels of 1..63 bytes that neither start nor end with '-', and a
\* final label that is not all digits; example.com is accepted, 123.456 is
\* rejected for its numeric final label.
C10_StandardDomainIff ==
    pc = "checked" =>
        /\ (out.error = "") <=> DomainWellFormed(input)
        /\ input = SampleDomain => out.error = ""
        /\ input = SampleNumericDomain
              => out.error = "top-level domain cannot be all numeric"

\* Witness of C10: an accepted domain of exactly 255 bytes, four labels of 63.
C10_Witness ==
    /\ pc = "checked"
    /\ out.error = ""
    /\ Len(input) = 255
    /\ \A f \in Fields(input, Ord["."]) : f[2] - f[1] + 1 = 63

(***************************************************************************)
(* The local-part validator and the collapsibility test: SpecLocal.        *)
(***************************************************************************)
MaxLocalTextLen == 4

\* One byte of each class the validator tells apart: a letter, the dot, the
\* quote, the backslash, a byte valid only inside quotes, the tab, and DEL.
LocalTextAlphabet ==
    {Ord["a"], Ord["."], Ord["\""], Ord["\\"], Ord["("], 9, 127}

Quoted(content) == <<Ord["\""]>> \o content \o <<Ord["\""]>>

\* Local-parts around the length limit, well-formed and not.
LongLocalParts ==
    {Rep(Ord["a"], 64), Rep(Ord["a"], 65),
     Quoted(Rep(Ord["a"], 62)), Quoted(Rep(Ord["a"], 63)),
     Rep(Ord["."], 64), Rep(Ord["."], 65), Quoted(Rep(127, 63))}

LocalTexts == StringsOver(LocalTextAlphabet, 0, MaxLocalTextLen) \cup LongLocalParts

InitLocal ==
    /\ input \in LocalTexts
    /\ a = NULL /\ b = NULL /\ c = NULL
    /\ pc = "call"
    /\ out = NULL

\* check_local_part(input): the message of the error raised, "" for none.
CheckLocalPart ==
    /\ pc = "call"
    /\ out' = [error |-> validate_email_local_part(input)]
    /\ pc' = "validated"
    /\ UNCHANGED <<input, a, b, c>>

\* quoted_content_valid_as_unquoted on a validated quoted local-part, as its
\* callers apply it to the local-part of a stored address.
QuotedContentValidAsUnquoted ==
    /\ pc = "validated"
    /\ out.error = ""
    /\ IsQuoted(input)
    /\ out' = [error |-> "", collapsible |-> quoted_content_valid_as_unquoted(input)]
    /\ pc' = "classified"
    /\ UNCHANGED <<input, a, b, c>>

NextLocal == CheckLocalPart \/ QuotedContentValidAsUnquoted

SpecLocal == InitLocal /\ [][NextLocal]_vars

\* A letter, a digit or one of ! # $ % & ' * + - / = ? ^ _ ` { | } ~
IsAtomByte(ch) ==
    \/ IsLetter(ch) \/ IsDigit(ch)
    \/ \E sym \in {"!", "#", "$", "%", "&", "'", "*", "+", "-", "/", "=", "?",
                    "^", "_", "BACKTICK", "{", "|", "}", "~"} : ch = Ord[sym]

\* The unquoted form: no leading, trailing or doubled dot, atom bytes else.
UnquotedForm(s) ==
    /\ Len(s) >= 1
    /\ s[1] # Ord["."] /\ s[Len(s)] # Ord["."]
    /\ \A i \in 1..(Len(s) - 1) : ~(s[i] = Ord["."] /\ s[i + 1] = Ord["."])
    /\ \A i \in 1..Len(s) : s[i] = Ord["."] \/ IsAtomByte(s[i])

\* The quoted form: quotes around a non-empty interior in which a byte after
\* an unescaped backslash is a tab or printable, and any other byte is a
\* backslash or printable and not a quote.
QuotedForm(s) ==
    /\ Len(s) > 2
    /\ s[1] = Ord["\""] /\ s[Len(s)] = Ord["\""]
    /\ \A i \in 1..(Len(s) - 2) :
          LET ch == Interior(s)[i]
          IN  IF EscapedAt(Interior(s), i)
              THEN ch = 9 \/ (ch >= 32 /\ ch <= 126)
              ELSE ch = Ord["\\"] \/ (ch >= 32 /\ ch <= 126 /\ ch # Ord["\""])

\* C11: the validator accepts a local-part if and only if its length is
\* 1..64 and it has the quoted or the unquoted form; length 0 and length
\* above 64 are reported before any grammar error.
C11_LocalPartIff ==
    pc = "validated" =>
        /\ (out.error = "") <=>
              (Len(input) \in 1..64 /\ (QuotedForm(input) \/ UnquotedForm(input)))
        /\ Len(input) = 0 => out.error = "local part cannot be empty"
        /\ Len(input) > 64 =>
              out.error = "local part exceeds maximum length of 64 characters"

\* Witness of C11: an accepted quoted local-part of exactly 64 bytes.
C11_Witness ==
    /\ pc = "validated"
    /\ out.error = ""
    /\ Len(input) = 64
    /\ QuotedForm(input)

\* C15: a validated quoted local-part is collapsible if and only if its
\* interior alone has the unquoted form; "." is not collapsible, "a" is.
C15_CollapsibleIff ==
    pc = "classified" =>
        /\ out.collapsible <=> UnquotedForm(Interior(input))
        /\ input = Quoted(Str(<<".">>)) => ~out.collapsible
        /\ input = Quoted(Str(<<"a">>)) => out.collapsible

\* Witness of C15: a one-dot interior, found not collapsible.
C15_Witness ==
    /\ pc = "classified"
    /\ input = Quoted(Str(<<".">>))
    /\ ~out.collapsible

(***************************************************************************)
(* Comparison of the local-parts of two rows: SpecLocalCmp.                *)
(***************************************************************************)
\* The rows of one domain, so that only the local-parts differ.
LocalStored == {x \in PairStored : x.domain = Str(<<"a", ".", "b">>)}

InitLocalCmp ==
    /\ input = <<>>
    /\ a \in LocalStored /\ b \in LocalStored /\ c = NULL
    /\ pc = "stored"
    /\ out = NULL

\* compare_local_parts on the local-parts of a and b
CompareLocalParts ==
    /\ pc = "stored"
    /\ out' = [cmp |-> compare_local_parts(get_local_part(a), get_local_part(b))]
    /\ pc' = "compared"
    /\ UNCHANGED <<input, a, b, c>>

NextLocalCmp == CompareLocalParts

SpecLocalCmp == InitLocalCmp /\ [][NextLocalCmp]_vars

\* s with its ASCII capitals replaced by the small letters.
CaseFold(s) ==
    [i \in 1..Len(s) |-> IF s[i] >= Ord["A"] /\ s[i] <= Ord["Z"] THEN s[i] + 32 ELSE s[i]]

\* x sorts before y ignoring case: the first difference in the common prefix
\* decides, and a proper prefix sorts first.
FoldedBefore(x, y) ==
    LET fx == CaseFold(x)
        fy == CaseFold(y)
        n  == IF Len(x) < Len(y) THEN Len(x) ELSE Len(y)
    IN  \/ \E i \in 1..n : fx[i] < fy[i] /\ \A j \in 1..(i - 1) : fx[j] = fy[j]
        \/ Len(x) < Len(y) /\ \A j \in 1..n : fx[j] = fy[j]

\* The local-part without the quotes of a quoted one.
Collapsed(local) == IF IsQuoted(local) THEN Interior(local) ELSE local

\* Exactly one of the two local-parts is quoted.
OneQuoted(l1, l2) == IsQuoted(l1) # IsQuoted(l2)

TheQuoted(l1, l2) == IF IsQuoted(l1) THEN l1 ELSE l2

\* C12: with exactly one local-part quoted, and that one collapsible,
\* compare_local_parts(l1, l2) has the sign of the case-insensitive,
\* shorter-is-less comparison of the collapsed l1 against the collapsed l2.
C12_MixedCollapsibleSign ==
    (/\ pc = "compared"
     /\ OneQuoted(a.local, b.local)
     /\ IsCollapsible(TheQuoted(a.local, b.local))) =>
        /\ out.cmp < 0 <=> FoldedBefore(Collapsed(a.local), Collapsed(b.local))
        /\ out.cmp = 0 <=> CaseFold(Collapsed(a.local)) = CaseFold(Collapsed(b.local))

\* C18: with exactly one local-part quoted, and that one not collapsible,
\* compare_local_parts is positive when the first is the quoted one and
\* negative when the second is.
C18_QuotedSortsAfter ==
    (/\ pc = "compared"
     /\ OneQuoted(a.local, b.local)
     /\ ~IsCollapsible(TheQuoted(a.local, b.local))) =>
        IF IsQuoted(a.local) THEN out.cmp > 0 ELSE out.cmp < 0

\* Witness of C18: the quoted local-part is the second argument and every
\* byte of the unquoted one is greater than the quote byte.
C18_Witness ==
    /\ pc = "compared"
    /\ ~IsQuoted(a.local) /\ IsQuoted(b.local) /\ ~IsCollapsible(b.local)
    /\ \A i \in 1..Len(a.local) : a.local[i] > Ord["\""]
    /\ out.cmp < 0

\* C20: email_addr_cmp returns one of -1, 0, 1.
C20_CmpIsMinusOneZeroOne ==
    pc = "compared" => out.cmp \in {-1, 0, 1}

(***************************************************************************)
(* The normalized local-part, and the normalized address read back by the  *)
(* input function: SpecNorm, SpecReparse.                                  *)
(***************************************************************************)
\* C13: the normalized local-part is the lower-cased interior of a quoted
\* collapsible local-part, the lower-cased local-part when it is unquoted,
\* and the local-part itself when it is quoted and not collapsible.
C13_NormalizedLocalPart ==
    pc = "normalized" =>
        b.local = IF IsCollapsible(a.local) THEN CaseFold(Interior(a.local))
                  ELSE IF ~IsQuoted(a.local) THEN CaseFold(a.local)
                  ELSE a.local

\* email_addr_out: local-part, '@', domain.
email_addr_out(email) ==
    get_local_part(email) \o <<Ord["@"]>> \o get_domain(email)

\* Texts with a standard domain, an IPv4 literal and an IPv6 literal.
ReparseStored ==
    StoredFrom(AddressTexts(LocalAlphabet,
                            DomainSamples \cup LiteralSamples
                                \cup {Bracketed(IPv6Prefix \o SampleIp6)}))

InitReparse ==
    /\ input = <<>>
    /\ a \in ReparseStored /\ b = NULL /\ c = NULL
    /\ pc = "stored"
    /\ out = NULL

\* email_addr_in(email_addr_out(b)) on the normalized row b
ReparseNormalized ==
    /\ pc = "normalized"
    /\ input' = email_addr_out(b)
    /\ out' = email_addr_in(input')
    /\ pc' = "reparsed"
    /\ UNCHANGED <<a, b, c>>

NextReparse == EmailAddrNormalize \/ ReparseNormalized

SpecReparse == InitReparse /\ [][NextReparse]_vars

MaxCmpDomainLen == 4

CmpDomainAlphabet == {Ord["a"], Ord["B"], Ord["."]}

\* Rows of one local-part on domains of different lengths and letter case.
DomainCmpStored ==
    StoredFrom({FullEmail(Str(<<"a">>), d) :
                   d \in StringsOver(CmpDomainAlphabet, 3, MaxCmpDomainLen)})

InitDomainCmp ==
    /\ input = <<>>
    /\ a \in DomainCmpStored /\ b \in DomainCmpStored /\ c = NULL
    /\ pc = "stored"
    /\ out = NULL

\* email_addr_domain_cmp(a, b)
EmailAddrDomainCmp ==
    /\ pc = "stored"
    /\ out' = [cmp |-> email_addr_domain_cmp(a, b)]
    /\ pc' = "compared"
    /\ UNCHANGED <<input, a, b, c>>

NextDomainCmp == EmailAddrDomainCmp

SpecDomainCmp == InitDomainCmp /\ [][NextDomainCmp]_vars

Sign(n) == IF n < 0 THEN -1 ELSE IF n > 0 THEN 1 ELSE 0

\* C14: email_addr_domain_cmp orders domains by the case-insensitive
\* comparison of the common prefix, the shorter less only on an equal
\* prefix, and so agrees in sign with the domain step of email_addr_cmp.
C14_DomainCmpOrder ==
    pc = "compared" =>
        /\ out.cmp < 0 <=> FoldedBefore(a.domain, b.domain)
        /\ out.cmp = 0 <=> CaseFold(a.domain) = CaseFold(b.domain)
        /\ Sign(out.cmp) = Sign(bounded_strcasecmp(get_domain(a), get_domain(b)))

(***************************************************************************)
(* The hash of a row against the rolling hash of its bytes: SpecHash.      *)
(***************************************************************************)
\* "A b" and "Ab": quoted with a capital, not collapsible and collapsible.
SampleQuotedLocals ==
    {Quoted(Str(<<"A", " ", "b">>)), Quoted(Str(<<"A", "b">>))}

HashStored ==
    PairStored \cup StoredFrom({FullEmail(l, d) : l \in SampleQuotedLocals,
                                                  d \in DomainSamples})

InitHash ==
    /\ input = <<>>
    /\ a \in HashStored /\ b = NULL /\ c = NULL
    /\ pc = "stored"
    /\ out = NULL

\* email_addr_hash(a)
EmailAddrHashOf ==
    /\ pc = "stored"
    /\ out' = [hash |-> email_addr_hash(a)]
    /\ pc' = "hashed"
    /\ UNCHANGED <<input, a, b, c>>

NextHash == EmailAddrHashOf

SpecHash == InitHash /\ [][NextHash]_vars

\* The bytes the hash is taken over: the local-part by branch, '@', and the
\* lower-cased domain.
HashedBytes(addr) ==
    (IF IsCollapsible(addr.local) THEN CaseFold(Interior(addr.local))
     ELSE IF IsQuoted(addr.local) THEN addr.local
     ELSE CaseFold(addr.local))
        \o <<Ord["@"]>> \o CaseFold(addr.domain)

\* h * 33 + byte modulo 2^32, on the four base-256 digits of h, lowest first.
RollingStep(h, byte) ==
    LET d1 == h[1] * 33 + byte
        d2 == h[2] * 33 + d1 \div 256
        d3 == h[3] * 33 + d2 \div 256
        d4 == h[4] * 33 + d3 \div 256
    IN  <<d1 % 256, d2 % 256, d3 % 256, d4 % 256>>

\* The rolling hash of bytes[1..n], started at 5381 = 21 * 256 + 5.
RECURSIVE RollingHash(_, _)
RollingHash(bytes, n) ==
    IF n = 0 THEN <<5, 21, 0, 0>>
    ELSE RollingStep(RollingHash(bytes, n - 1), bytes[n])

\* uint32 <<high, low>> is the value of the four digits.
SameValue(hash, digits) ==
    /\ hash[1] = digits[4] * 256 + digits[3]
    /\ hash[2] = digits[2] * 256 + digits[1]

\* C16: email_addr_hash is the 32-bit rolling hash, seed 5381, step
\* h * 33 + byte, over the local-part bytes by branch, '@' and the
\* lower-cased domain bytes.
C16_HashIsRollingHash ==
    pc = "hashed" =>
        SameValue(out.hash, RollingHash(HashedBytes(a), Len(HashedBytes(a))))

\* Witness of C16: a quoted local-part with a capital that is not
\* collapsible, on a domain with a capital.
C16_Witness ==
    /\ pc = "hashed"
    /\ IsQuoted(a.local) /\ ~IsCollapsible(a.local) /\ CaseFold(a.local) # a.local
    /\ CaseFold(a.domain) # a.domain
    /\ SameValue(out.hash, RollingHash(HashedBytes(a), Len(HashedBytes(a))))

\* C19: two addresses with unquoted local-parts, equal up to letter case in
\* local-part and domain, compare as 0 and have the same hash.
C19_UnquotedCaseInsensitive ==
    (/\ pc = "hashed"
     /\ ~IsQuoted(a.local) /\ ~IsQuoted(b.local)
     /\ CaseFold(a.local) = CaseFold(b.local)
     /\ CaseFold(a.domain) = CaseFold(b.domain)) =>
        out.cmp = 0 /\ out.hash_a = out.hash_b

\* Witness of C19: the two differ in the case of local-part and of domain.
C19_Witness ==
    /\ pc = "hashed"
    /\ ~IsQuoted(a.local) /\ ~IsQuoted(b.local)
    /\ CaseFold(a.local) = CaseFold(b.local) /\ a.local # b.local
    /\ CaseFold(a.domain) = CaseFold(b.domain) /\ a.domain # b.domain
    /\ out.cmp = 0 /\ out.hash_a = out.hash_b

(***************************************************************************)
(* The normalized domain: SpecNorm.                                        *)
(***************************************************************************)
\* C21: the normalized domain has the length of the domain, and each byte
\* is the lower-case of the byte at its place, a non-letter being unchanged.
C21_NormalizedDomain ==
    pc = "normalized" =>
        /\ b.domain_len = a.domain_len
        /\ Len(b.domain) = Len(a.domain)
        /\ \A i \in 1..Len(a.domain) :
              b.domain[i] = IF a.domain[i] >= Ord["A"] /\ a.domain[i] <= Ord["Z"]
                            THEN a.domain[i] + (Ord["a"] - Ord["A"])
                            ELSE a.domain[i]

\* Witness of C21: a domain with a capital, a small letter and a dot.
C21_Witness ==
    /\ pc = "normalized"
    /\ a.domain = Str(<<"A", ".", "b">>)
    /\ b.domain = Str(<<"a", ".", "b">>)

(***************************************************************************)
(* Comparison of two rows in both argument orders: SpecSwap.               *)
(***************************************************************************)
InitSwap ==
    /\ input = <<>>
    /\ a \in PairStored /\ b \in TripleStored /\ c = NULL
    /\ pc = "stored"
    /\ out = NULL

\* email_addr_cmp(a, b), email_addr_cmp(b, a)
EmailAddrCmpBothWays ==
    /\ pc = "stored"
    /\ out' = [ab |-> email_addr_cmp(a, b), ba |-> email_addr_cmp(b, a)]
    /\ pc' = "compared"
    /\ UNCHANGED <<input, a, b, c>>

NextSwap == EmailAddrCmpBothWays

SpecSwap == InitSwap /\ [][NextSwap]_vars

\* C22: email_addr_cmp(a, b) is negative, zero or positive exactly when
\* email_addr_cmp(b, a) is positive, zero or negative.
C22_CmpAntisymmetric ==
    pc = "compared" =>
        /\ out.ab < 0 <=> out.ba > 0
        /\ out.ab = 0 <=> out.ba = 0
        /\ out.ab > 0 <=> out.ba < 0

\* Witness of C22: a quoted collapsible local-part against an unquoted one
\* that differs from its interior, on one domain.
C22_Witness ==
    /\ pc = "compared"
    /\ IsCollapsible(a.local) /\ ~IsQuoted(b.local)
    /\ CaseFold(a.domain) = CaseFold(b.domain)
    /\ out.ab # 0 /\ Sign(out.ab) = -Sign(out.ba)

(***************************************************************************)
(* A row against its normalized form, and normalized equality of two rows: *)
(* SpecNormEq.                                                             *)
(***************************************************************************)
InitNormEq ==
    /\ input = <<>>
    /\ a \in PairStored /\ b \in TripleStored /\ c = NULL
    /\ pc = "stored"
    /\ out = NULL

\* c := email_addr_normalize(a); email_addr_cmp(c, a)
NormalizeAndCompare ==
    /\ pc = "stored"
    /\ c' = email_addr_normalize(a)
    /\ out' = [cmp |-> email_addr_cmp(c', a)]
    /\ pc' = "compared"
    /\ UNCHANGED <<input, a, b>>

\* email_addr_normalize_eq(a, b) and the hashes of a, b and c
NormalizeEqAndHash ==
    /\ pc = "compared"
    /\ out' = [cmp |-> out.cmp,
               normalize_eq |-> email_addr_normalize_eq(a, b),
               hash_a |-> email_addr_hash(a), hash_b |-> email_addr_hash(b),
               hash_norm |-> email_addr_hash(c)]
    /\ pc' = "hashed"
    /\ UNCHANGED <<input, a, b, c>>

NextNormEq == NormalizeAndCompare \/ NormalizeEqAndHash

SpecNormEq == InitNormEq /\ [][NextNormEq]_vars

\* C23: a normalized address compares as 0 with the address it came from.
C23_NormalizeStaysEqual ==
    pc \in {"compared", "hashed"} => out.cmp = 0

\* Witness of C23: normalization removed the quotes and changed the domain.
C23_Witness ==
    /\ pc = "compared"
    /\ IsCollapsible(a.local)
    /\ c.local # a.local /\ c.domain # a.domain
    /\ out.cmp = 0

\* C24: a normalized address has the hash of the address it came from, and
\* two addresses that email_addr_normalize_eq reports equal have one hash.
C24_NormalizeKeepsHash ==
    pc = "hashed" =>
        /\ out.hash_norm = out.hash_a
        /\ out.normalize_eq => out.hash_a = out.hash_b

\* Witness of C24: two different rows reported equal after normalization,
\* the first with quotes that normalization removed.
C24_Witness ==
    /\ pc = "hashed"
    /\ IsCollapsible(a.local) /\ c.local # a.local
    /\ a.local # b.local /\ a.domain # b.domain
    /\ out.normalize_eq
    /\ out.hash_norm = out.hash_a /\ out.hash_a = out.hash_b

(***************************************************************************)
(* The input function on texts with quotes and escapes, and the text of a  *)
(* stored row read back: SpecAccept, SpecRoundTrip.                        *)
(***************************************************************************)
MaxEscLocalLen == 4

EscAlphabet ==
    {Ord["a"], Ord["A"], Ord["."], Ord["\""], Ord["\\"], Ord["@"]}

\* Every short text before '@' and a valid domain or IPv4 literal.
EscTexts ==
    {FullEmail(l, d) : l \in StringsOver(EscAlphabet, 1, MaxEscLocalLen),
                       d \in {Str(<<"a", ".", "b">>)} \cup LiteralSamples}

InitAccept ==
    /\ input \in EscTexts
    /\ a = NULL /\ b = NULL /\ c = NULL
    /\ pc = "call"
    /\ out = NULL

SpecAccept == InitAccept /\ [][NextSplit]_vars

\* "\" : a quoted local-part whose interior is one unpaired backslash.
DanglingLocal == Quoted(Str(<<"\\">>))

\* C25: the quoted local-part of an accepted address does not end in a
\* dangling escape, its closing quote is not the escaped byte; the
\* local-part validator alone accepts such a local-part.
C25_NoDanglingEscape ==
    pc = "returned" =>
        /\ (out.error = "" /\ IsQuoted(out.local_part)) =>
              ~EscapedAt(out.local_part, Len(out.local_part))
        /\ input = FullEmail(DanglingLocal, Str(<<"a", ".", "b">>)) =>
              /\ validate_email_local_part(DanglingLocal) = ""
              /\ out.error = "unterminated quotes in email address"

\* Witness of C25: an accepted quoted local-part whose interior ends with a
\* backslash that is itself escaped.
C25_Witness ==
    /\ pc = "returned"
    /\ out.error = ""
    /\ IsQuoted(out.local_part)
    /\ out.local_part[Len(out.local_part) - 1] = Ord["\\"]
    /\ ~EscapedAt(out.local_part, Len(out.local_part))

\* email_addr_cast_to_text with total_len one byte short.
email_addr_cast_to_text_short(email) ==
    SubSeq(get_local_part(email) \o <<Ord["@"]>> \o get_domain(email),
           1, email.local_len + email.domain_len)

\* email_addr_cast_to_text: local-part, '@', domain.
email_addr_cast_to_text(email) ==
    get_local_part(email) \o <<Ord["@"]>> \o get_domain(email)

\* text_cast_to_email_addr: email_addr_in on the C string of the text.
text_cast_to_email_addr(txt) == email_addr_in(txt)

RoundTripStored == StoredFrom(EscTexts)

InitRoundTrip ==
    /\ input = <<>>
    /\ a \in RoundTripStored /\ b = NULL /\ c = NULL
    /\ pc = "stored"
    /\ out = NULL

\* b := text_cast_to_email_addr(email_addr_cast_to_text(a))
CastToTextAndBack ==
    /\ pc = "stored"
    /\ input' = email_addr_cast_to_text(a)
    /\ out' = text_cast_to_email_addr(input')
    /\ b' = IF out'.error = "" THEN out'.addr ELSE NULL
    /\ pc' = "reread"
    /\ UNCHANGED <<a, c>>

NextRoundTrip == CastToTextAndBack

SpecRoundTrip == InitRoundTrip /\ [][NextRoundTrip]_vars

\* C26: the text of a stored address is accepted by the input function,
\* which finds the separator where it was and returns the same local-part
\* and domain; email_addr_out gives the same text as the cast.
C26_TextRoundTrip ==
    pc = "reread" =>
        /\ input = email_addr_out(a)
        /\ out.error = ""
        /\ out.at_pos = a.local_len + 1
        /\ b.local = a.local /\ b.local_len = a.local_len
        /\ b.domain = a.domain /\ b.domain_len = a.domain_len

\* Witness of C26: a quoted local-part that holds an '@' and an escape.
C26_Witness ==
    /\ pc = "reread"
    /\ IsQuoted(a.local)
    /\ \E i \in 1..Len(a.local) : a.local[i] = Ord["@"]
    /\ \E i \in 1..Len(a.local) : a.local[i] = Ord["\\"]
    /\ a.domain \in LiteralSamples
    /\ b = a

====
